---------------------------- MODULE Spec2Model ----------------------------
(***************************************************************************)
(* A model of efgh (github.com/evankanderson/efgh): a library that wraps a *)
(* user function as an HTTP handler for CloudEvents in binary content      *)
(* mode.  The model follows src/handler.go (wrap, ServeHTTP, convertBinary,*)
(* convertStructured, Invoke) and src/efgh.go (CloudEventContext,          *)
(* CloudEvent), with the header accessors EventTime/EventId/getHeader of   *)
(* the earlier draft kept in src/unnamed/part_000.                         *)
(*                                                                         *)
(* Text is a sequence of one-character strings where the code looks inside *)
(* it (header names, Content-Type, RFC-3339 timestamps) and a sequence of  *)
(* tokens where it does not (JSON lexemes, error messages).                *)
(***************************************************************************)
EXTENDS Integers, Sequences, FiniteSets, TLC

VARIABLES
    function,   \* the value handed to Start/wrap
    wrapped,    \* wrap's result: [h, err, panic], or NotWrapped before the call
    pc,         \* position of the handler: Start, Fatal, Idle, MethodChecked, Decoded, Responded
    req,        \* the request being served (NoReq when idle)
    in,         \* payload bytes returned by the decoder
    ctx,        \* context returned by the decoder
    bodyRead,   \* whether req.Body has been read
    decodeErr,  \* the decoder's error
    call,       \* the single f.Call of this request: [called, args, response]
    result,     \* Invoke's (out, err)
    rw,         \* the http.ResponseWriter: status, WriteHeader calls, headers, body
    trace       \* the positions this request went through

vars ==
    <<function, wrapped, pc, req, in, ctx, bodyRead, decodeErr, call, result, rw, trace>>

(***************************************************************************)
(* Bounds of the model.                                                    *)
(***************************************************************************)
\* Longest parameter list and longest return list of the functions tried.
MaxArity ==
    3

(***************************************************************************)
(* Text helpers.                                                           *)
(***************************************************************************)
Lower ==
    <<"a", "b", "c", "d", "e", "f", "g", "h", "i", "j", "k", "l", "m", "n", "o", "p", "q", "r", "s", "t", "u", "v", "w", "x", "y", "z">>

Upper ==
    <<"A", "B", "C", "D", "E", "F", "G", "H", "I", "J", "K", "L", "M", "N", "O", "P", "Q", "R", "S", "T", "U", "V", "W", "X", "Y", "Z">>

ToUpper(c) ==
    IF \E i \in 1..26 : Lower[i] = c
    THEN Upper[CHOOSE i \in 1..26 : Lower[i] = c]
    ELSE c

ToLower(c) ==
    IF \E i \in 1..26 : Upper[i] = c
    THEN Lower[CHOOSE i \in 1..26 : Upper[i] = c]
    ELSE c

\* strings.HasPrefix
HasPrefix(s, prefix) ==
    /\ Len(s) >= Len(prefix)
    /\ SubSeq(s, 1, Len(prefix)) = prefix

\* textproto.CanonicalMIMEHeaderKey, which http.Header.Get applies to its key
\* and the server applies to every header name it receives.
CanonicalMIMEHeaderKey(s) ==
    [i \in 1..Len(s) |->
        IF i = 1 \/ s[i - 1] = "-" THEN ToUpper(s[i]) ELSE ToLower(s[i])]

\* http.Header.Get: the first value stored under the canonical key, "" if none.
Get(header, key) ==
    LET k == CanonicalMIMEHeaderKey(key)
    IN  IF k \in DOMAIN header /\ Len(header[k]) > 0 THEN header[k][1] ELSE <<>>

(***************************************************************************)
(* Errors.  A Go error value is nil or carries a message.                  *)
(***************************************************************************)
NilErr ==
    [isNil |-> TRUE, msg |-> <<>>]

NewError(msg) ==
    [isNil |-> FALSE, msg |-> msg]

(***************************************************************************)
(* Header names and fixed strings of the code.                             *)
(***************************************************************************)
HdrContentType ==
    <<"C", "o", "n", "t", "e", "n", "t", "-", "T", "y", "p", "e">>

HdrEventType ==
    <<"C", "E", "-", "E", "v", "e", "n", "t", "T", "y", "p", "e">>

HdrEventTypeVersion ==
    <<"C", "E", "-", "E", "v", "e", "n", "t", "T", "y", "p", "e", "V", "e", "r", "s", "i", "o", "n">>

HdrCloudEventsVersion ==
    <<"C", "E", "-", "C", "l", "o", "u", "d", "E", "v", "e", "n", "t", "s", "V", "e", "r", "s", "i", "o", "n">>

HdrSource ==
    <<"C", "E", "-", "S", "o", "u", "r", "c", "e">>

HdrEventID ==
    <<"C", "E", "-", "E", "v", "e", "n", "t", "I", "D">>

HdrSchemaURL ==
    <<"C", "E", "-", "S", "c", "h", "e", "m", "a", "U", "R", "L">>

HdrEventTime ==
    <<"C", "E", "-", "E", "v", "e", "n", "t", "T", "i", "m", "e">>

\* The keys the draft accessors pass to getHeader.
KeyEventtime ==
    <<"C", "e", "-", "E", "v", "e", "n", "t", "t", "i", "m", "e">>

KeyEventid ==
    <<"C", "e", "-", "E", "v", "e", "n", "t", "i", "d">>

StructuredPrefix ==
    <<"a", "p", "p", "l", "i", "c", "a", "t", "i", "o", "n", "/", "c", "l", "o", "u", "d", "e", "v", "e", "n", "t", "s">>

TextPlain ==
    <<"t", "e", "x", "t", "/", "p", "l", "a", "i", "n">>

MethodPost ==
    "POST"

StatusOK ==
    200

StatusMethodNotAllowed ==
    405

StatusExpectationFailed ==
    417

StatusInternalServerError ==
    500

\* Both keys are the zero value of the unexported type key (var x key).
contextKey ==
    0

headerKey ==
    0

(***************************************************************************)
(* reflect.Type, as far as wrap and Invoke look at it: Kind(), Elem().Kind()*)
(* and Implements() of context.Context and of error.                       *)
(***************************************************************************)
TCtx ==
    [name |-> "context.Context", kind |-> "Interface", elem |-> "", isCtx |-> TRUE, isErr |-> FALSE]

TErr ==
    [name |-> "error", kind |-> "Interface", elem |-> "", isCtx |-> FALSE, isErr |-> TRUE]

TBytes ==
    [name |-> "[]uint8", kind |-> "Slice", elem |-> "Uint8", isCtx |-> FALSE, isErr |-> FALSE]

TStruct ==
    [name |-> "main.MyData", kind |-> "Struct", elem |-> "", isCtx |-> FALSE, isErr |-> FALSE]

TInt ==
    [name |-> "int", kind |-> "Int", elem |-> "", isCtx |-> FALSE, isErr |-> FALSE]

\* A nil reflect.Type (inType, outType of a function without data).
NilType ==
    [name |-> "<nil>", kind |-> "Invalid", elem |-> "", isCtx |-> FALSE, isErr |-> FALSE]

Types ==
    {TCtx, TErr, TBytes, TStruct, TInt}

ctxType ==
    "context.Context"

errType ==
    "error"

\* reflect.Type.Implements
Implements(t, iface) ==
    IF iface = ctxType THEN t.isCtx ELSE t.isErr

\* Parameter lists and return lists of up to MaxArity types.
Signatures ==
    UNION {[1..n -> Types] : n \in 0..MaxArity}

\* The values Start may be handed: functions, and values that are no function.
Values ==
    [kind : {"Func"}, in : Signatures, out : Signatures]
        \cup {[kind |-> "String", in |-> <<>>, out |-> <<>>],
              [kind |-> "Nil", in |-> <<>>, out |-> <<>>]}

\* fmt's %v of the function's type.
TypeString(fn) ==
    IF fn.kind # "Func" THEN <<fn.kind>>
    ELSE <<"func(">> \o [i \in 1..Len(fn.in) |-> fn.in[i].name] \o <<")">>
            \o [i \in 1..Len(fn.out) |-> fn.out[i].name]

NoHandler ==
    [f |-> [kind |-> "Nil", in |-> <<>>, out |-> <<>>], needsContext |-> FALSE,
     hasError |-> FALSE, inType |-> NilType, outType |-> NilType]

WrapFailed(msg) ==
    [h |-> NoHandler, err |-> NewError(msg), panic |-> FALSE]

\* wrap: the signature analysis, in the order of the code's checks.
\* reflect.TypeOf(nil) is a nil Type, so t.Kind() panics for a nil function.
wrap(fn) ==
    LET NumIn == Len(fn.in)
        NumOut == Len(fn.out)
        needsContext == NumIn > 0 /\ Implements(fn.in[1], ctxType)
        inType == IF NumIn = 2 THEN fn.in[2]
                  ELSE IF NumIn > 0 /\ ~needsContext THEN fn.in[1]
                  ELSE NilType
        errFirst == NumOut > 0 /\ Implements(fn.out[1], errType)
        outType == IF NumOut > 0 /\ ~errFirst THEN fn.out[1] ELSE NilType
    IN  IF fn.kind = "Nil"
        THEN [h |-> NoHandler, err |-> NilErr, panic |-> TRUE]
        ELSE IF fn.kind # "Func"
        THEN WrapFailed(TypeString(fn) \o <<" is not a function">>)
        ELSE IF NumIn > 2
        THEN WrapFailed(TypeString(fn) \o <<" takes too many arguments">>)
        ELSE IF NumIn = 2 /\ ~needsContext
        THEN WrapFailed(<<"First argument must be of type context.Context: ">> \o TypeString(fn))
        ELSE IF NumOut > 2
        THEN WrapFailed(TypeString(fn) \o <<" returns too many outputs">>)
        ELSE IF NumOut = 2 /\ (errFirst \/ ~Implements(fn.out[2], errType))
        THEN WrapFailed(<<"Must return (data, error) with two arguments: ">> \o TypeString(fn))
        ELSE [h |-> [f |-> fn, needsContext |-> needsContext,
                     hasError |-> errFirst \/ NumOut = 2,
                     inType |-> inType, outType |-> outType],
              err |-> NilErr, panic |-> FALSE]

\* Start serves only when wrap returned a handler; otherwise log.Fatal.
Accepted(fn) ==
    LET w == wrap(fn) IN w.err.isNil /\ ~w.panic

(***************************************************************************)
(* time.Parse(time.RFC3339, s): 2006-01-02T15:04:05Z07:00, with the field  *)
(* ranges Go checks, for timestamps with two-digit fields and no           *)
(* fractional seconds (the ones the requests below carry).                 *)
(***************************************************************************)
Digits ==
    <<"0", "1", "2", "3", "4", "5", "6", "7", "8", "9">>

IsDigit(c) ==
    \E i \in 1..10 : Digits[i] = c

DigitVal(c) ==
    (CHOOSE i \in 1..10 : Digits[i] = c) - 1

Num2(s, i) ==
    DigitVal(s[i]) * 10 + DigitVal(s[i + 1])

Num4(s, i) ==
    Num2(s, i) * 100 + Num2(s, i + 2)

IsLeap(y) ==
    y % 4 = 0 /\ (y % 100 # 0 \/ y % 400 = 0)

DaysIn(m, y) ==
    IF m = 2 THEN (IF IsLeap(y) THEN 29 ELSE 28)
    ELSE IF m \in {4, 6, 9, 11} THEN 30 ELSE 31

\* The zero time.Time: January 1, year 1, 00:00:00 UTC.
ZeroTime ==
    [year |-> 1, month |-> 1, day |-> 1, hour |-> 0, minute |-> 0, second |-> 0, offset |-> 0]

RFC3339Layout(s) ==
    /\ Len(s) \in {20, 25}
    /\ \A i \in {1, 2, 3, 4, 6, 7, 9, 10, 12, 13, 15, 16, 18, 19} : IsDigit(s[i])
    /\ s[5] = "-" /\ s[8] = "-" /\ s[11] = "T" /\ s[14] = ":" /\ s[17] = ":"
    /\ IF Len(s) = 20 THEN s[20] = "Z"
       ELSE /\ s[20] \in {"+", "-"}
            /\ \A i \in {21, 22, 24, 25} : IsDigit(s[i])
            /\ s[23] = ":"

RFC3339InRange(s) ==
    /\ Num2(s, 6) \in 1..12
    /\ Num2(s, 9) \in 1..DaysIn(Num2(s, 6), Num4(s, 1))
    /\ Num2(s, 12) <= 23 /\ Num2(s, 15) <= 59 /\ Num2(s, 18) <= 59
    /\ Len(s) = 25 => (Num2(s, 21) <= 23 /\ Num2(s, 24) <= 59)

ParseError(s, why) ==
    NewError(<<"parsing time ">> \o s \o <<" as 2006-01-02T15:04:05Z07:00", why>>)

ParseRFC3339(s) ==
    IF ~RFC3339Layout(s)
    THEN [t |-> ZeroTime, err |-> ParseError(s, ": cannot parse")]
    ELSE IF ~RFC3339InRange(s)
    THEN [t |-> ZeroTime, err |-> ParseError(s, ": out of range")]
    ELSE [t |-> [year |-> Num4(s, 1), month |-> Num2(s, 6), day |-> Num2(s, 9),
                 hour |-> Num2(s, 12), minute |-> Num2(s, 15), second |-> Num2(s, 18),
                 offset |-> IF Len(s) = 20 THEN 0
                            ELSE (IF s[20] = "-" THEN -1 ELSE 1)
                                    * (Num2(s, 21) * 60 + Num2(s, 24))],
          err |-> NilErr]

(***************************************************************************)
(* context.Context: the request's context carries no value under a key of  *)
(* this package's type; WithValue adds one.                                *)
(***************************************************************************)
NilCtx ==
    [isNil |-> TRUE, key |-> -1, val |-> [type |-> "nil", v |-> <<>>]]

WithValue(key, val) ==
    [isNil |-> FALSE, key |-> key, val |-> val]

\* ctx.Value(key): nil when nothing is stored under key.
Value(c, key) ==
    IF ~c.isNil /\ c.key = key THEN c.val ELSE [type |-> "nil", v |-> <<>>]

ZeroCloudEventContext ==
    [EventType |-> <<>>, EventTypeVersion |-> <<>>, CloudEventsVersion |-> <<>>,
     Source |-> <<>>, EventID |-> <<>>, EventTime |-> ZeroTime, SchemaURL |-> <<>>,
     ContentType |-> <<>>, Extensions |-> <<>>]

\* CloudEvent: r, ok := ctx.Value(contextKey).(CloudEventContext)
CloudEvent(c) ==
    LET r == Value(c, contextKey)
    IN  IF r.type = "CloudEventContext"
        THEN [cex |-> r.v, ok |-> TRUE]
        ELSE [cex |-> ZeroCloudEventContext, ok |-> FALSE]

\* getHeader: h, ok := ctx.Value(headerKey).(http.Header); "" unless ok
getHeader(c, key) ==
    LET r == Value(c, headerKey)
    IN  IF r.type = "http.Header" THEN Get(r.v, key) ELSE <<>>

EventTime(c) ==
    ParseRFC3339(getHeader(c, KeyEventtime))

EventId(c) ==
    getHeader(c, KeyEventid)

(***************************************************************************)
(* The protocol decoder.                                                   *)
(***************************************************************************)
\* ioutil.ReadAll(req.Body)
ReadAll(body) ==
    IF body.fails
    THEN [data |-> <<>>, err |-> NewError(<<"unexpected EOF">>)]
    ELSE [data |-> body.data, err |-> NilErr]

DecodeFailed(err, read) ==
    [in |-> <<>>, ctx |-> NilCtx, err |-> err, bodyRead |-> read]

convertStructured(r) ==
    DecodeFailed(NewError(<<"structured output not supported yet">>), FALSE)

\* convertBinary without the return at line 120: a timestamp that does not
\* parse is dropped and decoding goes on.
convertBinaryKeepsGoing(r) ==
    LET rd == ReadAll(r.body)
        cex == [ZeroCloudEventContext EXCEPT !.EventID = Get(r.header, HdrEventID)]
    IN  IF ~rd.err.isNil
        THEN DecodeFailed(rd.err, TRUE)
        ELSE [in |-> rd.data,
              ctx |-> WithValue(contextKey, [type |-> "CloudEventContext", v |-> cex]),
              err |-> NilErr, bodyRead |-> TRUE]

convertBinary(r) ==
    LET ts == Get(r.header, HdrEventTime)
        parsed == ParseRFC3339(Get(r.header, HdrEventTime))
        cex == [EventType |-> Get(r.header, HdrEventType),
                EventTypeVersion |-> Get(r.header, HdrEventTypeVersion),
                CloudEventsVersion |-> Get(r.header, HdrCloudEventsVersion),
                Source |-> Get(r.header, HdrSource),
                EventID |-> Get(r.header, HdrEventID),
                EventTime |-> IF ts # <<>> THEN parsed.t ELSE ZeroTime,
                SchemaURL |-> Get(r.header, HdrSchemaURL),
                ContentType |-> Get(r.header, HdrContentType),
                Extensions |-> <<>>]
        rd == ReadAll(r.body)
    IN  IF ts # <<>> /\ ~parsed.err.isNil
        THEN DecodeFailed(parsed.err, FALSE)
        ELSE IF ~rd.err.isNil
        THEN DecodeFailed(rd.err, TRUE)
        ELSE [in |-> rd.data,
              ctx |-> WithValue(contextKey, [type |-> "CloudEventContext", v |-> cex]),
              err |-> NilErr, bodyRead |-> TRUE]

\* The mode test as an equality instead of a prefix test.
IsStructuredExact(r) ==
    Get(r.header, HdrContentType) = StructuredPrefix

\* ServeHTTP's choice of decoder.
IsStructured(r) ==
    HasPrefix(Get(r.header, HdrContentType), StructuredPrefix)

decode(r) ==
    IF IsStructured(r) THEN convertStructured(r) ELSE convertBinary(r)

(***************************************************************************)
(* encoding/json for the sample record type                                *)
(*   struct { AField string  `json:"a_field,omitempty"`                    *)
(*            ANumber int64  `json:"a_number,omitempty"`                   *)
(*            Ratio float64  `json:"ratio"` }                              *)
(* over JSON text given as its sequence of lexemes.                        *)
(***************************************************************************)
StrTable ==
    {<<"\"a_field\"", "a_field">>, <<"\"a_number\"", "a_number">>,
     <<"\"ratio\"", "ratio">>, <<"\"x\"", "x">>, <<"\"\"", "">>}

NumTable ==
    {<<"0", 0>>, <<"7", 7>>}

IsStrTok(t) ==
    \E p \in StrTable : p[1] = t

IsNumTok(t) ==
    \E p \in NumTable : p[1] = t

Unquote(t) ==
    (CHOOSE p \in StrTable : p[1] = t)[2]

Quote(text) ==
    (CHOOSE p \in StrTable : p[2] = text)[1]

NumVal(t) ==
    (CHOOSE p \in NumTable : p[1] = t)[2]

NumTok(n) ==
    (CHOOSE p \in NumTable : p[2] = n)[1]

IsScalarTok(t) ==
    IsStrTok(t) \/ IsNumTok(t) \/ t = "null"

\* { "k" : v , "k" : v ... } with scalar members.
IsObject(toks) ==
    LET n == Len(toks)
    IN  /\ n >= 2 /\ toks[1] = "{" /\ toks[n] = "}"
        /\ n = 2 \/ (n - 2) % 4 = 3
        /\ \A j \in 1..(n - 2) :
              CASE j % 4 = 1 -> IsStrTok(toks[j + 1])
                [] j % 4 = 2 -> toks[j + 1] = ":"
                [] j % 4 = 3 -> IsScalarTok(toks[j + 1])
                [] OTHER -> toks[j + 1] = ","

ValidJSON(toks) ==
    IsObject(toks) \/ (Len(toks) = 1 /\ IsScalarTok(toks[1]))

ZeroStruct ==
    [AField |-> "", ANumber |-> 0, Ratio |-> [nan |-> FALSE, val |-> 0]]

\* The member indexes of an object, their keys and their values.
Members(toks) ==
    1..((Len(toks) - 1) \div 4)

MemberKey(toks, i) ==
    Unquote(toks[4 * i - 2])

MemberVal(toks, i) ==
    toks[4 * i]

\* The members that set the field called name (null leaves a field alone).
Setting(toks, name) ==
    {i \in Members(toks) : MemberKey(toks, i) = name /\ MemberVal(toks, i) # "null"}

Max(S) ==
    CHOOSE x \in S : \A y \in S : y <= x

Min(S) ==
    CHOOSE x \in S : \A y \in S : x <= y

\* json.Unmarshal(in, &data): a syntax error before anything is decoded, else
\* the first member whose value does not fit its field.
Unmarshal(toks) ==
    LET strOK == {i \in Setting(toks, "a_field") : IsStrTok(MemberVal(toks, i))}
        numOK == {i \in Setting(toks, "a_number") : IsNumTok(MemberVal(toks, i))}
        ratOK == {i \in Setting(toks, "ratio") : IsNumTok(MemberVal(toks, i))}
        misfit == (Setting(toks, "a_field") \ strOK)
                    \cup (Setting(toks, "a_number") \ numOK)
                    \cup (Setting(toks, "ratio") \ ratOK)
        v == [AField |-> IF strOK = {} THEN ""
                         ELSE Unquote(MemberVal(toks, Max(strOK))),
              ANumber |-> IF numOK = {} THEN 0
                          ELSE NumVal(MemberVal(toks, Max(numOK))),
              Ratio |-> [nan |-> FALSE,
                         val |-> IF ratOK = {} THEN 0
                                 ELSE NumVal(MemberVal(toks, Max(ratOK)))]]
    IN  IF Len(toks) = 0
        THEN [v |-> ZeroStruct, err |-> NewError(<<"unexpected end of JSON input">>)]
        ELSE IF ~ValidJSON(toks)
        THEN [v |-> ZeroStruct,
              err |-> IF toks[1] = "{" /\ toks[Len(toks)] # "}"
                      THEN NewError(<<"unexpected end of JSON input">>)
                      ELSE NewError(<<"invalid character looking for beginning of value">>)]
        ELSE IF toks = <<"null">>
        THEN [v |-> ZeroStruct, err |-> NilErr]
        ELSE IF ~IsObject(toks)
        THEN [v |-> ZeroStruct,
              err |-> NewError(<<"json: cannot unmarshal ", toks[1],
                                 " into Go value of type main.MyData">>)]
        ELSE IF misfit # {}
        THEN [v |-> v,
              err |-> NewError(<<"json: cannot unmarshal ", MemberVal(toks, Min(misfit)),
                                 " into Go struct field ", MemberKey(toks, Min(misfit))>>)]
        ELSE [v |-> v, err |-> NilErr]

\* json.Marshal of the record: NaN is an unsupported value.
Marshal(s) ==
    IF s.Ratio.nan
    THEN [out |-> <<>>, err |-> NewError(<<"json: unsupported value: NaN">>)]
    ELSE [out |-> <<"{">>
                    \o (IF s.AField # "" THEN <<"\"a_field\"", ":", Quote(s.AField), ",">>
                        ELSE <<>>)
                    \o (IF s.ANumber # 0 THEN <<"\"a_number\"", ":", NumTok(s.ANumber), ",">>
                        ELSE <<>>)
                    \o <<"\"ratio\"", ":", NumTok(s.Ratio.val), "}">>,
          err |-> NilErr]

(***************************************************************************)
(* The user function.  What it returns is its own business: any value of   *)
(* each declared return type.                                              *)
(***************************************************************************)
GoodStruct ==
    [AField |-> "x", ANumber |-> 7, Ratio |-> [nan |-> FALSE, val |-> 0]]

NaNStruct ==
    [AField |-> "x", ANumber |-> 7, Ratio |-> [nan |-> TRUE, val |-> 0]]

Boom ==
    NewError(<<"boom">>)

ValuesOf(t) ==
    IF t.isErr THEN {NilErr, Boom}
    ELSE IF t.kind = "Slice" THEN {[bytes |-> <<>>], [bytes |-> <<"o", "k">>]}
    ELSE IF t.kind = "Struct" THEN {[s |-> GoodStruct], [s |-> NaNStruct]}
    ELSE {[other |-> t.name]}

\* The possible results of f.Call for a function wrap accepted (at most two
\* return values).
Returns(fn) ==
    IF Len(fn.out) = 0 THEN {<<>>}
    ELSE IF Len(fn.out) = 1 THEN {<<v>> : v \in ValuesOf(fn.out[1])}
    ELSE {<<v, e>> : v \in ValuesOf(fn.out[1]), e \in ValuesOf(fn.out[2])}

(***************************************************************************)
(* functionHandler.Invoke                                                  *)
(***************************************************************************)
IsByteSlice(t) ==
    t.kind = "Slice" /\ t.elem = "Uint8"

\* BuildArgs without the return at line 40: the value is handed on although
\* json.Unmarshal failed.
BuildArgsIgnoringDecodeError(h, c, input) ==
    LET first == IF h.needsContext THEN <<c>> ELSE <<>>
    IN  IF h.inType = NilType
        THEN [args |-> first, err |-> NilErr]
        ELSE IF IsByteSlice(h.inType)
        THEN [args |-> first \o <<[bytes |-> input]>>, err |-> NilErr]
        ELSE IF h.inType.kind = "Struct"
        THEN [args |-> first \o <<[s |-> Unmarshal(input).v]>>, err |-> NilErr]
        ELSE [args |-> <<>>,
              err |-> NewError(<<"Unable to unmarshall type: ", h.inType.name>>)]

\* Lines 29-46: the argument list, or the error that ends Invoke before the call.
BuildArgs(h, c, input) ==
    LET first == IF h.needsContext THEN <<c>> ELSE <<>>
        u == Unmarshal(input)
    IN  IF h.inType = NilType
        THEN [args |-> first, err |-> NilErr]
        ELSE IF IsByteSlice(h.inType)
        THEN [args |-> first \o <<[bytes |-> input]>>, err |-> NilErr]
        ELSE IF h.inType.kind = "Struct"
        THEN IF ~u.err.isNil
             THEN [args |-> <<>>, err |-> u.err]
             ELSE [args |-> first \o <<[s |-> u.v]>>, err |-> NilErr]
        ELSE [args |-> <<>>,
              err |-> NewError(<<"Unable to unmarshall type: ", h.inType.name>>)]

\* Lines 49-64: the response bytes and the error from what f returned.
Extract(h, response) ==
    LET m == Marshal(response[1].s)
        out == IF h.outType = NilType THEN <<>>
               ELSE IF IsByteSlice(h.outType) THEN response[1].bytes
               ELSE m.out
        err == IF h.outType # NilType /\ h.outType.kind = "Struct" THEN m.err ELSE NilErr
    IN  IF h.outType # NilType /\ ~IsByteSlice(h.outType) /\ h.outType.kind # "Struct"
        THEN [out |-> <<>>, err |-> NewError(<<"Unable to marshal type: ", h.outType.name>>)]
        ELSE IF h.hasError
        \* err, ok = response[len(response)-1].Interface().(error): when the
        \* function returned a nil error the assertion fails and err becomes nil.
        THEN [out |-> out, err |-> response[Len(response)]]
        ELSE [out |-> out, err |-> err]

NoCall ==
    [called |-> FALSE, args |-> <<>>, response |-> <<>>]

\* Invoke, given what f returns if it is called.
Invoke(h, c, input, response) ==
    LET a == BuildArgs(h, c, input)
        x == Extract(h, response)
    IN  IF ~a.err.isNil
        THEN [out |-> <<>>, err |-> a.err, call |-> NoCall]
        ELSE [out |-> x.out, err |-> x.err,
              call |-> [called |-> TRUE, args |-> a.args, response |-> response]]

(***************************************************************************)
(* http.ResponseWriter                                                     *)
(***************************************************************************)
FreshWriter ==
    [status |-> 0, writeHeaderCalls |-> 0, contentType |-> <<>>, body |-> <<>>]

\* Only the first WriteHeader sets the status; a later one is superfluous.
WriteHeader(w, code) ==
    [w EXCEPT !.status = IF @ = 0 THEN code ELSE @, !.writeHeaderCalls = @ + 1]

\* Write sends an implicit 200 when no status was written.
Write(w, bytes) ==
    [w EXCEPT !.status = IF @ = 0 THEN StatusOK ELSE @, !.body = @ \o bytes]

SetContentType(w, v) ==
    [w EXCEPT !.contentType = v]

(***************************************************************************)
(* The requests tried.                                                     *)
(***************************************************************************)
Absent ==
    [present |-> FALSE, v |-> <<>>]

Some(v) ==
    [present |-> TRUE, v |-> v]

CtCloudEventsJson ==
    <<"a", "p", "p", "l", "i", "c", "a", "t", "i", "o", "n", "/", "c", "l", "o", "u", "d", "e", "v", "e", "n", "t", "s", "+", "j", "s", "o", "n">>

CtJson ==
    <<"a", "p", "p", "l", "i", "c", "a", "t", "i", "o", "n", "/", "j", "s", "o", "n">>

IdAbc123 ==
    <<"a", "b", "c", "-", "1", "2", "3">>

Time2020 ==
    <<"2", "0", "2", "0", "-", "0", "1", "-", "0", "1", "T", "0", "0", ":", "0", "0", ":", "0", "0", "Z">>

TimeDateOnly ==
    <<"2", "0", "2", "0", "-", "0", "1", "-", "0", "1">>

TimeBadMonth ==
    <<"2", "0", "2", "0", "-", "1", "3", "-", "0", "1", "T", "0", "0", ":", "0", "0", ":", "0", "0", "Z">>

SrcValue ==
    <<"/", "s", "r", "c">>

\* 2020-01-01T00:00:00Z as a time.Time.
Instant2020 ==
    [year |-> 2020, month |-> 1, day |-> 1, hour |-> 0, minute |-> 0, second |-> 0, offset |-> 0]

ValidTimes ==
    {Time2020}

InvalidTimes ==
    {TimeDateOnly, TimeBadMonth}

PayloadFull ==
    <<"{", "\"a_field\"", ":", "\"x\"", ",", "\"a_number\"", ":", "7", "}">>

PayloadMisfit ==
    <<"{", "\"a_number\"", ":", "\"x\"", "}">>

PayloadTruncated ==
    <<"{", "\"a_field\"", ":">>

DecodablePayloads ==
    {PayloadFull}

UndecodablePayloads ==
    {<<>>, PayloadMisfit, PayloadTruncated}

Methods ==
    {MethodPost, "GET"}

\* The header map the server builds: names canonicalised, one value each.
MkHeader(pairs) ==
    LET present == {p \in pairs : p[2].present}
    IN  [k \in {CanonicalMIMEHeaderKey(p[1]) : p \in present} |->
            <<(CHOOSE p \in present : CanonicalMIMEHeaderKey(p[1]) = k)[2].v>>]

Requests ==
    {[method |-> m,
      header |-> MkHeader({<<HdrContentType, ct>>, <<HdrEventTime, ts>>,
                           <<HdrEventID, id>>, <<HdrSource, src>>}),
      body |-> b] :
        m \in Methods,
        ct \in {Absent, Some(CtJson), Some(CtCloudEventsJson)},
        ts \in {Absent, Some(<<>>)} \cup {Some(t) : t \in ValidTimes \cup InvalidTimes},
        id \in {Absent, Some(IdAbc123)},
        src \in {Absent, Some(SrcValue)},
        b \in {[data |-> d, fails |-> FALSE] : d \in DecodablePayloads \cup UndecodablePayloads}
                \cup {[data |-> <<>>, fails |-> TRUE]}}

NoReq ==
    [method |-> "", header |-> <<>>, body |-> [data |-> <<>>, fails |-> FALSE]]

NoResult ==
    [out |-> <<>>, err |-> NilErr]

(***************************************************************************)
(* Start, and the handler's steps.                                         *)
(***************************************************************************)
fh ==
    wrapped.h

Quiet ==
    /\ req = NoReq
    /\ in = <<>>
    /\ ctx = NilCtx
    /\ bodyRead = FALSE
    /\ decodeErr = NilErr
    /\ call = NoCall
    /\ result = NoResult
    /\ rw = FreshWriter
    /\ trace = <<>>

\* The state once Start has wrapped a function and serves.
Init ==
    /\ function \in {v \in Values : Accepted(v)}
    /\ wrapped = wrap(function)
    /\ pc = "Idle"
    /\ Quiet

\* Start: wrap the function; log.Fatal unless wrap returned a handler.
Start ==
    /\ pc = "Start"
    /\ wrapped' = wrap(function)
    /\ pc' = IF Accepted(function) THEN "Idle" ELSE "Fatal"
    /\ UNCHANGED <<function, req, in, ctx, bodyRead, decodeErr, call, result, rw, trace>>

\* The handler without its method check.
MethodAllowedAlways(r) ==
    TRUE

\* Line 68.
MethodAllowed(r) ==
    r.method = MethodPost

\* ServeHTTP, lines 67-71: a request arrives and its method is checked.
ServeHTTPMethod(r) ==
    /\ pc = "Idle"
    /\ req' = r
    /\ IF ~MethodAllowed(r)
       THEN /\ rw' = WriteHeader(rw, StatusMethodNotAllowed)
            /\ pc' = "Responded"
            /\ trace' = <<"Idle", "Responded">>
       ELSE /\ rw' = rw
            /\ pc' = "MethodChecked"
            /\ trace' = <<"Idle", "MethodChecked">>
    /\ UNCHANGED <<function, wrapped, in, ctx, bodyRead, decodeErr, call, result>>

\* Lines 82-84.
RespondDecodeError(w, err) ==
    Write(WriteHeader(SetContentType(w, TextPlain), StatusExpectationFailed), err.msg)

\* ServeHTTP, lines 72-86: decode, and answer 417 when that fails.
ServeHTTPDecode ==
    /\ pc = "MethodChecked"
    /\ LET d == decode(req)
       IN  /\ in' = d.in
           /\ ctx' = d.ctx
           /\ decodeErr' = d.err
           /\ bodyRead' = d.bodyRead
           /\ IF ~d.err.isNil
              THEN /\ rw' = RespondDecodeError(rw, d.err)
                   /\ pc' = "Responded"
                   /\ trace' = trace \o <<"Responded">>
              ELSE /\ rw' = rw
                   /\ pc' = "Decoded"
                   /\ trace' = trace \o <<"Decoded">>
    /\ UNCHANGED <<function, wrapped, req, call, result>>

\* RespondInvoked without the return at line 92: the success response is
\* written after the 500.
RespondInvokedFallsThrough(w, r) ==
    LET w1 == IF ~r.err.isNil
              THEN Write(WriteHeader(w, StatusInternalServerError), r.err.msg)
              ELSE w
    IN  Write(WriteHeader(w1, StatusOK), r.out)

\* Lines 89-96: the response for Invoke's result.
RespondInvoked(w, r) ==
    IF ~r.err.isNil
    THEN Write(WriteHeader(w, StatusInternalServerError), r.err.msg)
    ELSE Write(WriteHeader(w, StatusOK), r.out)

\* ServeHTTP, lines 87-97: invoke the function and write the response.
ServeHTTPInvoke ==
    /\ pc = "Decoded"
    /\ \E response \in Returns(fh.f) :
          LET r == Invoke(fh, ctx, in, response)
          IN  /\ call' = r.call
              /\ result' = [out |-> r.out, err |-> r.err]
              /\ rw' = RespondInvoked(rw, r)
    /\ pc' = "Responded"
    /\ trace' = trace \o <<"Invoked", "Responded">>
    /\ UNCHANGED <<function, wrapped, req, in, ctx, bodyRead, decodeErr>>

\* ServeHTTP has returned; the server is ready for the next request.
ServeHTTPReturn ==
    /\ pc = "Responded"
    /\ pc' = "Idle"
    /\ req' = NoReq
    /\ in' = <<>>
    /\ ctx' = NilCtx
    /\ bodyRead' = FALSE
    /\ decodeErr' = NilErr
    /\ call' = NoCall
    /\ result' = NoResult
    /\ rw' = FreshWriter
    /\ trace' = <<>>
    /\ UNCHANGED <<function, wrapped>>

Next ==
    \/ \E r \in Requests : ServeHTTPMethod(r)
    \/ ServeHTTPDecode
    \/ ServeHTTPInvoke
    \/ ServeHTTPReturn

Spec ==
    Init /\ [][Next]_vars

(***************************************************************************)
(* Start over every value it may be handed.                                *)
(***************************************************************************)
WrapInit ==
    /\ function \in Values
    /\ wrapped = [h |-> NoHandler, err |-> NilErr, panic |-> FALSE]
    /\ pc = "Start"
    /\ Quiet

WrapNext ==
    Start

WrapSpec ==
    WrapInit /\ [][WrapNext]_vars

(***************************************************************************)
(* What the properties below read off a state.                             *)
(***************************************************************************)
\* The value the client sent under a header name (canonical form), "" if none.
Sent(name) ==
    IF name \in DOMAIN req.header THEN req.header[name][1] ELSE <<>>

KeyContentType ==
    <<"C", "o", "n", "t", "e", "n", "t", "-", "T", "y", "p", "e">>

Serving ==
    req # NoReq

Posted ==
    Serving /\ req.method = "POST"

StructuredMode ==
    Posted /\ HasPrefix(Sent(KeyContentType), StructuredPrefix)

BinaryMode ==
    Posted /\ ~HasPrefix(Sent(KeyContentType), StructuredPrefix)

Rank(p) ==
    CASE p = "Idle" -> 0
      [] p = "MethodChecked" -> 1
      [] p = "Decoded" -> 2
      [] p = "Invoked" -> 3
      [] p = "Responded" -> 4

\* The function's declared shapes of section 3 of the specification.
LegalShape(fn) ==
    LET Data == {TBytes, TStruct}
    IN  /\ fn.kind = "Func"
        /\ fn.in \in {<<>>, <<TCtx>>} \cup {<<d>> : d \in Data} \cup {<<TCtx, d>> : d \in Data}
        /\ fn.out \in {<<>>, <<TErr>>} \cup {<<d>> : d \in Data} \cup {<<d, TErr>> : d \in Data}

(***************************************************************************)
(* C1: when the user function returns a non-nil error, the response is 500 *)
(* with the error's message as body, and the data is not written.          *)
(***************************************************************************)
C1_UserErrorIs500WithItsMessage ==
    (pc = "Responded" /\ call.called /\ fh.hasError
        /\ ~call.response[Len(call.response)].isNil)
    => /\ rw.status = StatusInternalServerError
       /\ rw.body = call.response[Len(call.response)].msg

\* C1 for the functions whose first return value Invoke can encode: the one
\* case in which C1 fails is a return type wrap should have refused (C2, C3).
UserErrorIs500ForEncodableData ==
    (pc = "Responded" /\ call.called /\ fh.hasError
        /\ (fh.outType = NilType \/ IsByteSlice(fh.outType) \/ fh.outType.kind = "Struct")
        /\ ~call.response[Len(call.response)].isNil)
    => /\ rw.status = StatusInternalServerError
       /\ rw.body = call.response[Len(call.response)].msg

(***************************************************************************)
(* C2: wrap succeeds exactly for the legal shapes: parameters (), (Ctx),   *)
(* (Data), (Ctx, Data) and returns (), (Err), (Data), (Data, Err), where   *)
(* Data is a byte slice or a struct.                                       *)
(***************************************************************************)
C2_WrapAcceptsExactlyLegalShapes ==
    pc # "Start"
    => ((pc = "Idle" /\ wrapped.err.isNil /\ ~wrapped.panic) <=> LegalShape(function))

(***************************************************************************)
(* C3: no request fails on the function's parameter or return type: Invoke *)
(* never returns an unsupported-type error.                                *)
(***************************************************************************)
C3_NoUnsupportedTypeAtRequestTime ==
    ~result.err.isNil
    => result.err.msg[1] \notin {"Unable to unmarshall type: ", "Unable to marshal type: "}

(***************************************************************************)
(* C4: a POST whose Content-Type starts with application/cloudevents is    *)
(* answered 417 with the fixed message; its body is not read and the user  *)
(* function is not called.                                                 *)
(***************************************************************************)
C4_StructuredModeRejected ==
    StructuredMode
    => /\ pc \in {"MethodChecked", "Responded"}
       /\ call = NoCall /\ ~bodyRead /\ in = <<>> /\ ctx = NilCtx
       /\ pc = "Responded"
            => /\ rw.status = StatusExpectationFailed
               /\ rw.writeHeaderCalls = 1
               /\ rw.body = <<"structured output not supported yet">>

C4_Witness ==
    /\ pc = "Responded" /\ StructuredMode
    /\ Sent(KeyContentType) = CtCloudEventsJson
    /\ req.body.data = PayloadFull /\ fh.inType = TStruct
    /\ Sent(KeyEventtime) = Time2020
    /\ rw.status = StatusExpectationFailed

(***************************************************************************)
(* C5: a binary-mode POST with a non-empty CE-EventTime that is not        *)
(* RFC-3339 is answered 417 with the time-parsing error as body; no        *)
(* context is produced, the body is not read, the user function is not     *)
(* called.  An absent or empty CE-EventTime is no error and leaves         *)
(* EventTime at the zero time.                                             *)
(***************************************************************************)
C5_BadEventTimeRejected ==
    BinaryMode
    => /\ Sent(KeyEventtime) \in InvalidTimes
            => /\ pc \in {"MethodChecked", "Responded"}
               /\ call = NoCall /\ ~bodyRead /\ in = <<>> /\ ctx = NilCtx
               /\ pc = "Responded"
                    => /\ rw.status = StatusExpectationFailed
                       /\ HasPrefix(rw.body, <<"parsing time ">> \o Sent(KeyEventtime))
       /\ (Sent(KeyEventtime) = <<>> /\ ~req.body.fails /\ pc \in {"Decoded", "Responded"})
            => /\ decodeErr.isNil
               /\ rw.status # StatusExpectationFailed
               /\ CloudEvent(ctx).ok
               /\ CloudEvent(ctx).cex.EventTime = ZeroTime

C5_Witness ==
    /\ pc = "Responded" /\ BinaryMode
    /\ Sent(KeyEventtime) = TimeBadMonth
    /\ req.body.data = PayloadFull
    /\ rw.status = StatusExpectationFailed

(***************************************************************************)
(* C6: a request whose method is not POST is answered 405 with an empty    *)
(* body, whatever its headers and body; it is not decoded and the user     *)
(* function is not called.                                                 *)
(***************************************************************************)
C6_NonPostRejected ==
    (Serving /\ req.method # "POST")
    => /\ pc = "Responded"
       /\ rw = [status |-> StatusMethodNotAllowed, writeHeaderCalls |-> 1,
                contentType |-> <<>>, body |-> <<>>]
       /\ call = NoCall /\ ~bodyRead /\ in = <<>> /\ ctx = NilCtx
       /\ trace = <<"Idle", "Responded">>

C6_Witness ==
    /\ pc = "Responded" /\ req.method = "GET"
    /\ Sent(KeyContentType) = CtCloudEventsJson
    /\ Sent(KeyEventtime) = TimeDateOnly
    /\ req.body.data = PayloadFull
    /\ rw.status = StatusMethodNotAllowed

(***************************************************************************)
(* C7: inside the invoked function of a binary-mode POST, the accessors    *)
(* report the request's own metadata: EventId returns the CE-EventID       *)
(* header, EventTime the parsed CE-EventTime, and CloudEvent is found with *)
(* the same EventID and EventTime.                                         *)
(***************************************************************************)
C7_AccessorsSeeOwnRequest ==
    (call.called /\ fh.needsContext /\ BinaryMode /\ Sent(KeyEventtime) = Time2020)
    => /\ EventId(call.args[1]) = Sent(KeyEventid)
       /\ EventTime(call.args[1]) = [t |-> Instant2020, err |-> NilErr]
       /\ CloudEvent(call.args[1]).ok
       /\ CloudEvent(call.args[1]).cex.EventID = Sent(KeyEventid)
       /\ CloudEvent(call.args[1]).cex.EventTime = Instant2020

\* The part of C7 that the handler of src/handler.go provides.
CloudEventSeesOwnRequest ==
    (call.called /\ fh.needsContext /\ BinaryMode /\ Sent(KeyEventtime) = Time2020)
    => /\ CloudEvent(call.args[1]).ok
       /\ CloudEvent(call.args[1]).cex.EventID = Sent(KeyEventid)
       /\ CloudEvent(call.args[1]).cex.EventTime = Instant2020

(***************************************************************************)
(* C8: when the first return value is a struct and encoding it as JSON     *)
(* fails, Invoke returns an error and the request is answered 500, also    *)
(* when the function has an error return and returned nil.                 *)
(***************************************************************************)
C8_EncodeFailureIs500 ==
    (pc = "Responded" /\ call.called /\ fh.outType.kind = "Struct"
        /\ call.response[1].s.Ratio.nan)
    => /\ ~result.err.isNil
       /\ rw.status = StatusInternalServerError

\* C8 for the functions without an error return, where line 60 does not run.
EncodeFailureIs500WithoutErrorReturn ==
    (pc = "Responded" /\ call.called /\ fh.outType.kind = "Struct" /\ ~fh.hasError
        /\ call.response[1].s.Ratio.nan)
    => /\ ~result.err.isNil
       /\ rw.status = StatusInternalServerError
       /\ rw.body = <<"json: unsupported value: NaN">>

(***************************************************************************)
(* C9: for a function with a struct parameter, a payload that does not     *)
(* decode as JSON into it means the function is not called and the request *)
(* is answered 500 with the decode error as body.                          *)
(***************************************************************************)
C9_UndecodablePayloadNeverCalls ==
    (fh.inType.kind = "Struct" /\ BinaryMode /\ decodeErr.isNil
        /\ pc \in {"Decoded", "Responded"} /\ in \in UndecodablePayloads)
    => /\ call = NoCall
       /\ pc = "Responded"
            => /\ rw.status = StatusInternalServerError
               /\ rw.writeHeaderCalls = 1
               /\ rw.body # <<>>
               /\ rw.body = Unmarshal(in).err.msg

C9_Witness ==
    /\ pc = "Responded" /\ fh.inType = TStruct /\ decodeErr.isNil
    /\ in = PayloadMisfit
    /\ rw.status = StatusInternalServerError
    /\ rw.body = <<"json: cannot unmarshal ", "\"x\"", " into Go struct field ", "a_number">>

(***************************************************************************)
(* C10: every request makes one linear pass Idle, MethodChecked, Decoded,  *)
(* Invoked, Responded, re-entering nothing; it ends in one Responded       *)
(* outcome with the status written once (405 unless POST, else 417 when    *)
(* decoding fails, else 500 when Invoke fails, else 200 with the response  *)
(* bytes), and the user function is called at most once and only after the *)
(* method check and the decoding succeeded.                                *)
(***************************************************************************)
C10_Outcome ==
    /\ \A i, j \in DOMAIN trace : i < j => Rank(trace[i]) < Rank(trace[j])
    /\ Serving => (trace # <<>> /\ trace[1] = "Idle" /\ trace[Len(trace)] = pc)
    /\ call.called
         => /\ Posted /\ decodeErr.isNil
            /\ trace = <<"Idle", "MethodChecked", "Decoded", "Invoked", "Responded">>
    /\ rw.writeHeaderCalls <= 1
    /\ pc # "Responded" => (rw = FreshWriter /\ call = NoCall)
    /\ pc = "Responded"
         => /\ rw.writeHeaderCalls = 1
            /\ IF ~Posted
               THEN rw.status = StatusMethodNotAllowed /\ rw.body = <<>>
                    /\ trace = <<"Idle", "Responded">>
               ELSE IF ~decodeErr.isNil
               THEN rw.status = StatusExpectationFailed /\ rw.body = decodeErr.msg
                    /\ trace = <<"Idle", "MethodChecked", "Responded">>
               ELSE IF ~result.err.isNil
               THEN rw.status = StatusInternalServerError /\ rw.body = result.err.msg
                    /\ trace = <<"Idle", "MethodChecked", "Decoded", "Invoked", "Responded">>
               ELSE rw.status = StatusOK /\ rw.body = result.out
                    /\ trace = <<"Idle", "MethodChecked", "Decoded", "Invoked", "Responded">>

C10_Forward ==
    pc' # pc => \/ Rank(pc') > Rank(pc)
                \/ (pc = "Responded" /\ pc' = "Idle")

C10_OneLinearPass ==
    /\ []C10_Outcome
    /\ [][C10_Forward]_vars

C10_Witness ==
    /\ pc = "Responded" /\ call.called
    /\ rw.status = StatusOK /\ rw.body = <<"o", "k">>
    /\ trace = <<"Idle", "MethodChecked", "Decoded", "Invoked", "Responded">>

=============================================================================
